---- MODULE Spec2Model ----
(***************************************************************************)
(* The asteroids game of src/index.ts (the final variant, lines 339-712): *)
(* the State record folded by reduceState over the merged stream of clock *)
(* ticks and key commands, and the subscription that updateView cancels   *)
(* when the game is over.                                                  *)
(*                                                                         *)
(* Numbers are fixed point.  Lengths are counted in 1/PX of a pixel, so    *)
(* that the rock radii 30, 15, 7.5, 3.75 and the thrust 0.1 are integers,  *)
(* and angles in 1/DEG of a degree, so that the rotation step 0.1 is 1.    *)
(***************************************************************************)
EXTENDS Integers, Sequences, FiniteSets, TLC

VARIABLES state, subscribed, clock, ticks, held, keyEvents, lastEvent, gameOverTexts,
          emitted, delivered

vars == <<state, subscribed, clock, ticks, held, keyEvents, lastEvent, gameOverTexts,
          emitted, delivered>>

(***************************************************************************)
(* Bounds of the model.                                                    *)
(***************************************************************************)
\* ticks the clock emits in one run
MaxTicks == 3
\* keyboard events (resp. commands, in the bare fold) in one run
MaxKeyEvents == 3

(***************************************************************************)
(* Units and the program's Constants.                                      *)
(***************************************************************************)
PX == 20
DEG == 10

CanvasSize == 600
BulletExpirationTime == 1000
BulletRadius == 3
BulletVelocity == 2
StartRockRadius == 30
StartRocksCount == 5
StartTime == 0
ShipRadius == 20
\* the lifetime tick compares a bullet's age with
TickBulletLifetime == 100
\* ThrustAcc: 0.1 pixel
ThrustAcc == PX \div 10
\* the direction of new Rotate(.1): 0.1 degree
RotateDir == DEG \div 10

Keys == {"ArrowLeft", "ArrowRight", "ArrowUp", "Space"}

(***************************************************************************)
(* class Vec                                                               *)
(***************************************************************************)
Vec(x, y) == [x |-> x, y |-> y]
Zero == Vec(0, 0)
add(a, b) == Vec(a.x + b.x, a.y + b.y)
scale(a, s) == Vec(a.x * s, a.y * s)
sub(a, b) == add(a, scale(b, -1))
\* len() is a square root; the model keeps its square
len2(a) == a.x * a.x + a.y * a.y
ortho(a) == Vec(a.y, -a.x)

\* nearest integer to p / q, for p >= 0 and q > 0
RoundDiv(p, q) == (p + q \div 2) \div q

\* m * sin of t tenths of a degree, 0 <= t <= 1800, by the rational
\* approximation 4t(180-t) / (40500 - t(180-t)) (t in degrees), which is
\* exact at 0, 30, 90, 150 and 180 degrees
SinHalfTurn(t, m) ==
  LET p == t * (180 * DEG - t)
  IN RoundDiv(4 * p * m, 40500 * DEG * DEG - p)

SinTimes(a, m) ==
  LET t == a % (360 * DEG)
  IN IF t <= 180 * DEG THEN SinHalfTurn(t, m) ELSE -SinHalfTurn(t - 180 * DEG, m)

CosTimes(a, m) == SinTimes(a + 90 * DEG, m)

\* Vec.unitVecInDirection(deg).scale(m): new Vec(0,-1).rotate(deg) is
\* (sin deg, -cos deg)
unitVecInDirection(deg, m) == Vec(SinTimes(deg, m), -CosTimes(deg, m))

(***************************************************************************)
(* Bodies                                                                  *)
(***************************************************************************)
\* the id viewType+oid.id is kept as the pair <<viewType, oid.id>>
createCircle(viewType, oid, createTime, pos, radius, vel) ==
  [id |-> <<viewType, oid>>, viewType |-> viewType, createTime |-> createTime,
   pos |-> pos, radius |-> radius, vel |-> vel, acc |-> Zero,
   angle |-> 0, rotation |-> 0, torque |-> 0]

createRock(oid, createTime, pos, radius, vel) ==
  createCircle("rock", oid, createTime, pos, radius, vel)

createBullet(oid, createTime, pos, radius, vel) ==
  createCircle("bullet", oid, createTime, pos, radius, vel)

createShip ==
  [id |-> <<"ship">>, viewType |-> "ship", createTime |-> 0,
   pos |-> Vec((CanvasSize * PX) \div 2, (CanvasSize * PX) \div 2),
   radius |-> ShipRadius * PX, vel |-> Zero, acc |-> Zero,
   angle |-> 0, rotation |-> 0, torque |-> 0]

(***************************************************************************)
(* Array helpers                                                           *)
(***************************************************************************)
\* a.map(f) is written [i \in 1..Len(a) |-> f(a[i])] where it is used

\* flatMap(a, f), given mapped = a.map(f): Array.prototype.concat(...mapped)
RECURSIVE flatMap(_)
flatMap(mapped) ==
  IF Len(mapped) = 0 THEN <<>> ELSE Head(mapped) \o flatMap(Tail(mapped))

elem(a, e) == \E i \in 1..Len(a) : a[i].id = e.id

except(a, b) == SelectSeq(a, LAMBDA e : ~elem(b, e))

(***************************************************************************)
(* Movement                                                                *)
(***************************************************************************)
wrap(v) ==
  LET s == CanvasSize * PX
  IN IF v < 0 THEN v + s ELSE IF v > s THEN v - s ELSE v

torusWrap(p) == Vec(wrap(p.x), wrap(p.y))
\* mutant: the angle advances by the rotation this step has just updated
moveBodyByUpdatedRotation(o) ==
  [o EXCEPT !.rotation = o.rotation + o.torque,
            !.angle = o.angle + (o.rotation + o.torque),
            !.pos = torusWrap(add(o.pos, o.vel)),
            !.vel = add(o.vel, o.acc)]

moveBody(o) ==
  [o EXCEPT !.rotation = o.rotation + o.torque,
            !.angle = o.angle + o.rotation,
            !.pos = torusWrap(add(o.pos, o.vel)),
            !.vel = add(o.vel, o.acc)]

(***************************************************************************)
(* handleCollisions                                                        *)
(***************************************************************************)
\* mutant: touching circles count as collided
bodiesCollidedWhenTouching(a, b) ==
  len2(sub(a.pos, b.pos)) <= (a.radius + b.radius) * (a.radius + b.radius)

bodiesCollided(a, b) ==
  len2(sub(a.pos, b.pos)) < (a.radius + b.radius) * (a.radius + b.radius)

shipCollided(s) ==
  Len(SelectSeq(s.rocks, LAMBDA r : bodiesCollided(s.ship, r))) > 0

allBulletsAndRocks(s) ==
  flatMap([i \in 1..Len(s.bullets) |->
             [j \in 1..Len(s.rocks) |-> <<s.bullets[i], s.rocks[j]>>]])

\* mutant: first match wins, only the first colliding pair is handled
firstCollidedPairOnly(s) ==
  LET hits == SelectSeq(allBulletsAndRocks(s), LAMBDA p : bodiesCollided(p[1], p[2]))
  IN IF Len(hits) = 0 THEN <<>> ELSE <<Head(hits)>>

collidedBulletsAndRocks(s) ==
  SelectSeq(allBulletsAndRocks(s), LAMBDA p : bodiesCollided(p[1], p[2]))

collidedBullets(s) ==
  [i \in 1..Len(collidedBulletsAndRocks(s)) |-> collidedBulletsAndRocks(s)[i][1]]

collidedRocks(s) ==
  [i \in 1..Len(collidedBulletsAndRocks(s)) |-> collidedBulletsAndRocks(s)[i][2]]

\* mutant: the children keep the parent's line of motion
childAlongParent(r, dir) ==
  [radius |-> r.radius \div 2, pos |-> r.pos, vel |-> scale(r.vel, dir)]

child(r, dir) ==
  [radius |-> r.radius \div 2, pos |-> r.pos, vel |-> scale(ortho(r.vel), dir)]
\* mutant: every destroyed rock splits, whatever its radius
spawnChildrenAlways(r) == <<child(r, 1), child(r, -1)>>

spawnChildren(r) ==
  IF 4 * r.radius >= StartRockRadius * PX THEN <<child(r, 1), child(r, -1)>> ELSE <<>>

\* mutant: the index is left out of the minted id
newRocksOneId(s) ==
  LET kids == flatMap([i \in 1..Len(collidedRocks(s)) |-> spawnChildren(collidedRocks(s)[i])])
  IN [i \in 1..Len(kids) |->
        createRock(s.objCount, s.time, kids[i].pos, kids[i].radius, kids[i].vel)]

newRocks(s) ==
  LET kids == flatMap([i \in 1..Len(collidedRocks(s)) |-> spawnChildren(collidedRocks(s)[i])])
  IN [i \in 1..Len(kids) |->
        createRock(s.objCount + (i - 1), s.time, kids[i].pos, kids[i].radius, kids[i].vel)]
\* mutant: what collides is removed without being entered in exit
handleCollisionsSilently(s) ==
  [s EXCEPT !.bullets = except(s.bullets, collidedBullets(s)),
            !.rocks = except(s.rocks, collidedRocks(s)) \o newRocks(s),
            !.objCount = s.objCount + Len(newRocks(s)),
            !.gameOver = shipCollided(s)]

handleCollisions(s) ==
  [s EXCEPT !.bullets = except(s.bullets, collidedBullets(s)),
            !.rocks = except(s.rocks, collidedRocks(s)) \o newRocks(s),
            !.exit = s.exit \o collidedBullets(s) \o collidedRocks(s),
            !.objCount = s.objCount + Len(newRocks(s)),
            !.gameOver = shipCollided(s)]

(***************************************************************************)
(* tick and reduceState                                                    *)
(***************************************************************************)
\* mutant: a bullet expires one tick early, at the lifetime itself
expiredAtLifetime(b, elapsed) == (elapsed - b.createTime) >= TickBulletLifetime
\* mutant: a bullet expires one tick late
expiredLate(b, elapsed) == (elapsed - b.createTime) > TickBulletLifetime + 1

expired(b, elapsed) == (elapsed - b.createTime) > TickBulletLifetime

\* mutant: the expired bullets are appended to the previous exit
tickKeepingExit(s, elapsed) ==
  LET expiredBullets == SelectSeq(s.bullets, LAMBDA b : expired(b, elapsed))
      activeBullets == SelectSeq(s.bullets, LAMBDA b : ~expired(b, elapsed))
  IN handleCollisions([s EXCEPT !.ship = moveBody(s.ship),
                                !.bullets = [i \in 1..Len(activeBullets) |-> moveBody(activeBullets[i])],
                                !.rocks = [i \in 1..Len(s.rocks) |-> moveBody(s.rocks[i])],
                                !.exit = s.exit \o expiredBullets,
                                !.time = elapsed])
\* mutant: the tick does not record its elapsed in time
tickLeavingTime(s, elapsed) ==
  LET expiredBullets == SelectSeq(s.bullets, LAMBDA b : expired(b, elapsed))
      activeBullets == SelectSeq(s.bullets, LAMBDA b : ~expired(b, elapsed))
  IN handleCollisions([s EXCEPT !.ship = moveBody(s.ship),
                                !.bullets = [i \in 1..Len(activeBullets) |-> moveBody(activeBullets[i])],
                                !.rocks = [i \in 1..Len(s.rocks) |-> moveBody(s.rocks[i])],
                                !.exit = expiredBullets])
\* mutant: every bullet is moved and tested for collision, and the expired
\* ones are taken out afterwards
tickExpiringAfterCollision(s, elapsed) ==
  LET expiredBullets == SelectSeq(s.bullets, LAMBDA b : expired(b, elapsed))
      collided == handleCollisions(
                    [s EXCEPT !.ship = moveBody(s.ship),
                              !.bullets = [i \in 1..Len(s.bullets) |-> moveBody(s.bullets[i])],
                              !.rocks = [i \in 1..Len(s.rocks) |-> moveBody(s.rocks[i])],
                              !.exit = expiredBullets,
                              !.time = elapsed])
  IN [collided EXCEPT !.bullets = SelectSeq(collided.bullets, LAMBDA b : ~expired(b, elapsed))]

tick(s, elapsed) ==
  LET expiredBullets == SelectSeq(s.bullets, LAMBDA b : expired(b, elapsed))
      activeBullets == SelectSeq(s.bullets, LAMBDA b : ~expired(b, elapsed))
  IN handleCollisions([s EXCEPT !.ship = moveBody(s.ship),
                                !.bullets = [i \in 1..Len(activeBullets) |-> moveBody(activeBullets[i])],
                                !.rocks = [i \in 1..Len(s.rocks) |-> moveBody(s.rocks[i])],
                                !.exit = expiredBullets,
                                !.time = elapsed])

\* the four event classes
Tick(elapsed) == [type |-> "Tick", arg |-> elapsed]
Rotate(direction) == [type |-> "Rotate", arg |-> direction]
Thrust(on) == [type |-> "Thrust", arg |-> IF on THEN 1 ELSE 0]
Shoot == [type |-> "Shoot", arg |-> 0]
\* mutant: the bullet starts at the ship's centre, not at its rim
shootBulletFromCentre(s) ==
  createBullet(s.objCount, s.time,
               s.ship.pos,
               BulletRadius * PX,
               add(s.ship.vel, unitVecInDirection(s.ship.angle, BulletVelocity * PX)))

shootBullet(s) ==
  createBullet(s.objCount, s.time,
               add(s.ship.pos, unitVecInDirection(s.ship.angle, s.ship.radius)),
               BulletRadius * PX,
               add(s.ship.vel, unitVecInDirection(s.ship.angle, BulletVelocity * PX)))
\* mutant: Rotate sets the ship turning at once, writing rotation as well
reduceStateTurningAtOnce(s, e) ==
  IF e.type = "Rotate" THEN [s EXCEPT !.ship.torque = e.arg, !.ship.rotation = e.arg]
  ELSE IF e.type = "Thrust"
    THEN [s EXCEPT !.ship.acc =
            IF e.arg = 1 THEN unitVecInDirection(s.ship.angle, ThrustAcc) ELSE Zero]
  ELSE IF e.type = "Shoot"
    THEN [s EXCEPT !.bullets = s.bullets \o <<shootBullet(s)>>,
                   !.objCount = s.objCount + 1]
  ELSE tick(s, e.arg)
\* mutant: Shoot puts the new bullet in front of the others
reduceStateShootingFirst(s, e) ==
  IF e.type = "Rotate" THEN [s EXCEPT !.ship.torque = e.arg]
  ELSE IF e.type = "Thrust"
    THEN [s EXCEPT !.ship.acc =
            IF e.arg = 1 THEN unitVecInDirection(s.ship.angle, ThrustAcc) ELSE Zero]
  ELSE IF e.type = "Shoot"
    THEN [s EXCEPT !.bullets = <<shootBullet(s)>> \o s.bullets,
                   !.objCount = s.objCount + 1]
  ELSE tick(s, e.arg)
\* mutant: Rotate turns the bullets as well as the ship
reduceStateSteeringBullets(s, e) ==
  IF e.type = "Rotate"
    THEN [s EXCEPT !.ship.torque = e.arg,
                   !.bullets = [i \in 1..Len(s.bullets) |-> [s.bullets[i] EXCEPT !.torque = e.arg]]]
  ELSE IF e.type = "Thrust"
    THEN [s EXCEPT !.ship.acc =
            IF e.arg = 1 THEN unitVecInDirection(s.ship.angle, ThrustAcc) ELSE Zero]
  ELSE IF e.type = "Shoot"
    THEN [s EXCEPT !.bullets = s.bullets \o <<shootBullet(s)>>,
                   !.objCount = s.objCount + 1]
  ELSE tick(s, e.arg)

reduceState(s, e) ==
  IF e.type = "Rotate" THEN [s EXCEPT !.ship.torque = e.arg]
  ELSE IF e.type = "Thrust"
    THEN [s EXCEPT !.ship.acc =
            IF e.arg = 1 THEN unitVecInDirection(s.ship.angle, ThrustAcc) ELSE Zero]
  ELSE IF e.type = "Shoot"
    THEN [s EXCEPT !.bullets = s.bullets \o <<shootBullet(s)>>,
                   !.objCount = s.objCount + 1]
  ELSE tick(s, e.arg)

(***************************************************************************)
(* The states a run starts in.  InitialState is initialState of the        *)
(* source for two draws of Math.random().  From it no rock meets the ship  *)
(* or a bullet for some hundred ticks, so a run may also start in one of   *)
(* four states of a game in progress, each made of bodies the program      *)
(* makes: original rocks (radius StartRockRadius, createTime StartTime,    *)
(* velocity components in (-0.5, 0.5], ids rock0..rock4, anywhere on the   *)
(* canvas after enough ticks), descendants of half, quarter and eighth     *)
(* radius, bullets of radius BulletRadius moving at BulletVelocity, the    *)
(* ship with no key held, and objCount above every id in use.              *)
(***************************************************************************)
Centre == (CanvasSize * PX) \div 2
At(dx, dy) == Vec(Centre + dx, Centre + dy)

initialRocksDirections ==
  { <<Vec(10, 10), Vec(-7, 3), Vec(0, -9), Vec(4, 0), Vec(-2, -5)>>,
    <<Vec(-10 + 1, 10), Vec(6, 8), Vec(-3, 4), Vec(1, -1), Vec(0, 0)>> }

startRocks(dirs) ==
  [i \in 1..StartRocksCount |->
     createRock(i - 1, StartTime, Zero, StartRockRadius * PX, dirs[i])]

initialState(dirs) ==
  [time |-> 0, ship |-> createShip, bullets |-> <<>>, rocks |-> startRocks(dirs),
   exit |-> <<>>, objCount |-> StartRocksCount, gameOver |-> FALSE]

\* rock3 closes in on the resting ship (touching after one tick, overlapping
\* after two); rock1 sits above the muzzle; two bullets fired to the right
\* 100 and 99 ticks ago are about to expire, the first clear of every rock,
\* the second a step short of rock4, which drifts towards them
SceneApproach ==
  [time |-> 600, ship |-> createShip,
   bullets |-> << createBullet(5, 500, At(4400, 0), BulletRadius * PX, Vec(BulletVelocity * PX, 0)),
                  createBullet(6, 501, At(4360, 0), BulletRadius * PX, Vec(BulletVelocity * PX, 0)) >>,
   rocks |-> << createRock(0, StartTime, At(-4000, 3000), StartRockRadius * PX, Vec(-5, 5)),
                createRock(1, StartTime, At(0, -1020), StartRockRadius * PX, Vec(3, -4)),
                createRock(2, StartTime, At(3000, 4000), StartRockRadius * PX, Vec(10, 2)),
                createRock(3, StartTime, At(606, 808), StartRockRadius * PX, Vec(-6, -8)),
                createRock(4, StartTime, At(5110, 0), StartRockRadius * PX, Vec(-9, 0)) >>,
   exit |-> <<>>, objCount |-> 7, gameOver |-> FALSE]

\* two original rocks overlap each other right above the muzzle, so that one
\* bullet meets both; the other three are far away
SceneCluster ==
  [time |-> 600, ship |-> createShip, bullets |-> <<>>,
   rocks |-> << createRock(0, StartTime, At(-4000, 3000), StartRockRadius * PX, Vec(-5, 5)),
                createRock(1, StartTime, At(-300, -1000), StartRockRadius * PX, Vec(1, 0)),
                createRock(2, StartTime, At(300, -1000), StartRockRadius * PX, Vec(0, -2)),
                createRock(3, StartTime, At(4000, 4000), StartRockRadius * PX, Vec(-6, -8)),
                createRock(4, StartTime, At(-5000, -5000), StartRockRadius * PX, Vec(0, -1)) >>,
   exit |-> <<>>, objCount |-> 5, gameOver |-> FALSE]

\* late in a game: what is left is a rock of a quarter radius (the least
\* that splits) and one of an eighth (which does not), both at the muzzle
SceneDebris ==
  [time |-> 2000, ship |-> createShip, bullets |-> <<>>,
   rocks |-> << createRock(61, 1700, At(0, -620), (StartRockRadius * PX) \div 4, Vec(3, -4)),
                createRock(88, 1900, At(100, -500), (StartRockRadius * PX) \div 8, Vec(-4, -3)) >>,
   exit |-> <<>>, objCount |-> 97, gameOver |-> FALSE]

\* initialState for the draw EdgeDirections after the ticks 0..1198, no key
\* touched: rock0, drawn with Math.random() = 0 for x, moves half a pixel a
\* tick and is one step short of the right edge
EdgeDirections == <<Vec(10, 2), Vec(-7, 3), Vec(0, -9), Vec(4, 0), Vec(-2, -5)>>

SceneEdge ==
  [time |-> 1198, ship |-> createShip, bullets |-> <<>>,
   rocks |-> << createRock(0, StartTime, Vec(11990, 2398), StartRockRadius * PX, EdgeDirections[1]),
                createRock(1, StartTime, Vec(3607, 3597), StartRockRadius * PX, EdgeDirections[2]),
                createRock(2, StartTime, Vec(0, 1209), StartRockRadius * PX, EdgeDirections[3]),
                createRock(3, StartTime, Vec(4796, 0), StartRockRadius * PX, EdgeDirections[4]),
                createRock(4, StartTime, Vec(9602, 6005), StartRockRadius * PX, EdgeDirections[5]) >>,
   exit |-> <<>>, objCount |-> 5, gameOver |-> FALSE]

Scenes == {SceneApproach, SceneCluster, SceneDebris, SceneEdge}

NoEvent == [type |-> "none", arg |-> 0, flip |-> FALSE]

\* construction: nothing delivered, no key held, interval(10) about to emit 0
InitFresh ==
  /\ \E dirs \in initialRocksDirections : state = initialState(dirs)
  /\ clock = 0

\* a game in progress: the clock's next value follows the last tick
InitScene ==
  /\ state \in Scenes
  /\ clock = state.time + 1

Init ==
  /\ InitFresh \/ InitScene
  /\ subscribed = TRUE
  /\ ticks = 0
  /\ held = {}
  /\ keyEvents = 0
  /\ lastEvent = NoEvent
  /\ gameOverTexts = 0
  /\ emitted = 0
  /\ delivered = 0

(***************************************************************************)
(* The main game stream: merge(...).pipe(scan(reduceState, initialState))  *)
(* .subscribe(updateView)                                                  *)
(***************************************************************************)
\* mutant: updateView never unsubscribes
updateViewKeepsSubscription(s) == TRUE

\* updateView's effect on the subscription: unsubscribe() when s.gameOver
updateViewSubscribed(s) == ~s.gameOver
\* mutant: the event is folded in twice
DeliverTwice(e) ==
  /\ emitted' = emitted + 1
  /\ state' = reduceState(reduceState(state, e), e)
  /\ delivered' = delivered + 1
  /\ lastEvent' = [type |-> e.type, arg |-> e.arg, flip |-> ~lastEvent.flip]
  /\ subscribed' = updateViewSubscribed(state')
  /\ gameOverTexts' = IF state'.gameOver THEN gameOverTexts + 1 ELSE gameOverTexts

\* one event out of merge, through scan, and the new state to updateView
Deliver(e) ==
  /\ emitted' = emitted + 1
  /\ state' = reduceState(state, e)
  /\ delivered' = delivered + 1
  /\ lastEvent' = [type |-> e.type, arg |-> e.arg, flip |-> ~lastEvent.flip]
  /\ subscribed' = updateViewSubscribed(state')
  /\ gameOverTexts' = IF state'.gameOver THEN gameOverTexts + 1 ELSE gameOverTexts

\* what keyObservable('keydown', k, ...) maps a first keydown of k to
startCommand(k) ==
  CASE k = "ArrowLeft" -> Rotate(-RotateDir)
    [] k = "ArrowRight" -> Rotate(RotateDir)
    [] k = "ArrowUp" -> Thrust(TRUE)
    [] k = "Space" -> Shoot

\* what keyObservable('keyup', k, ...) maps a keyup of k to
stopCommand(k) ==
  CASE k = "ArrowLeft" -> Rotate(0)
    [] k = "ArrowRight" -> Rotate(0)
    [] k = "ArrowUp" -> Thrust(FALSE)

\* gameClock: interval(10) emits 0, 1, 2, ... while subscribed
ClockTick ==
  /\ subscribed
  /\ ticks < MaxTicks
  /\ Deliver(Tick(clock))
  /\ clock' = clock + 1
  /\ ticks' = ticks + 1
  /\ UNCHANGED <<held, keyEvents>>

\* a key goes down (repeat = false)
KeyDown(k) ==
  /\ k \notin held
  /\ keyEvents < MaxKeyEvents
  /\ held' = held \cup {k}
  /\ keyEvents' = keyEvents + 1
  /\ IF subscribed
       THEN Deliver(startCommand(k))
       ELSE UNCHANGED <<state, lastEvent, subscribed, gameOverTexts, emitted, delivered>>
  /\ UNCHANGED <<clock, ticks>>
\* mutant: no filter on repeat, an auto-repeated keydown is a keydown
KeyRepeatDelivered(k) ==
  /\ k \in held
  /\ keyEvents < MaxKeyEvents
  /\ keyEvents' = keyEvents + 1
  /\ IF subscribed
       THEN Deliver(startCommand(k))
       ELSE UNCHANGED <<state, lastEvent, subscribed, gameOverTexts, emitted, delivered>>
  /\ UNCHANGED <<clock, ticks, held>>

\* a held key auto-repeats: keydown with repeat = true, which
\* filter(({repeat})=>!repeat) drops
KeyRepeat(k) ==
  /\ k \in held
  /\ keyEvents < MaxKeyEvents
  /\ keyEvents' = keyEvents + 1
  /\ UNCHANGED <<state, subscribed, clock, ticks, held, lastEvent, gameOverTexts,
                 emitted, delivered>>

\* a key goes up; no source listens for the keyup of Space
KeyUp(k) ==
  /\ k \in held
  /\ keyEvents < MaxKeyEvents
  /\ held' = held \ {k}
  /\ keyEvents' = keyEvents + 1
  /\ IF subscribed /\ k # "Space"
       THEN Deliver(stopCommand(k))
       ELSE UNCHANGED <<state, lastEvent, subscribed, gameOverTexts, emitted, delivered>>
  /\ UNCHANGED <<clock, ticks>>

Next ==
  \/ ClockTick
  \/ \E k \in Keys : KeyDown(k)
  \/ \E k \in Keys : KeyRepeat(k)
  \/ \E k \in Keys : KeyUp(k)

Spec == Init /\ [][Next]_vars

\* interval(10) keeps firing: while the subscription lasts, the next tick
\* does arrive (within the bound on the ticks of a run).  ClockTick is the
\* one action that changes ticks, so the fairness is stated on the count
ClockFires == subscribed /\ ticks < MaxTicks /\ ticks' = ticks + 1

SpecLive == Init /\ [][Next]_vars /\ WF_ticks(ClockFires)

(***************************************************************************)
(* reduceState on its own: the fold without the subscription, so that the  *)
(* reducer is also applied to states with gameOver = true.                 *)
(***************************************************************************)
Commands ==
  {Rotate(-RotateDir), Rotate(RotateDir), Rotate(0), Thrust(TRUE), Thrust(FALSE), Shoot}

Fold(e) ==
  /\ emitted' = emitted + 1
  /\ state' = reduceState(state, e)
  /\ delivered' = delivered + 1
  /\ lastEvent' = [type |-> e.type, arg |-> e.arg, flip |-> ~lastEvent.flip]
  /\ UNCHANGED <<subscribed, held, gameOverTexts>>

FoldTick ==
  /\ ticks < MaxTicks
  /\ Fold(Tick(clock))
  /\ clock' = clock + 1
  /\ ticks' = ticks + 1
  /\ UNCHANGED keyEvents

FoldCommand(c) ==
  /\ keyEvents < MaxKeyEvents
  /\ Fold(c)
  /\ keyEvents' = keyEvents + 1
  /\ UNCHANGED <<clock, ticks>>

NextReduce ==
  \/ FoldTick
  \/ \E c \in Commands : FoldCommand(c)

SpecReduce == Init /\ [][NextReduce]_vars

(***************************************************************************)
(* Vocabulary of the claims.  A step feeds an event to the reducer when    *)
(* lastEvent changes (its flip bit alternates); the claims below speak of  *)
(* the state before the step (state), the event (lastEvent') and the state *)
(* after it (state').                                                      *)
(***************************************************************************)
Fed == lastEvent' # lastEvent
TickStep == Fed /\ lastEvent'.type = "Tick"
ShootStep == Fed /\ lastEvent'.type = "Shoot"
RotateStep == Fed /\ lastEvent'.type = "Rotate"
ThrustStep == Fed /\ lastEvent'.type = "Thrust"

Range(a) == {a[i] : i \in DOMAIN a}
IdsOf(a) == {a[i].id : i \in DOMAIN a}
NoDuplicateIds(a) == \A i, j \in DOMAIN a : i # j => a[i].id # a[j].id

\* the distance rule, written out on the coordinates
Overlaps(a, b) ==
  (a.pos.x - b.pos.x) * (a.pos.x - b.pos.x) + (a.pos.y - b.pos.y) * (a.pos.y - b.pos.y)
    < (a.radius + b.radius) * (a.radius + b.radius)

\* the bodies of s after the movement of Tick(e), before any removal
ExpiredAt(s, e) == SelectSeq(s.bullets, LAMBDA b : e - b.createTime > TickBulletLifetime)
MovedBullets(s, e) ==
  LET active == SelectSeq(s.bullets, LAMBDA b : ~(e - b.createTime > TickBulletLifetime))
  IN [i \in 1..Len(active) |-> moveBody(active[i])]
MovedRocks(s) == [i \in 1..Len(s.rocks) |-> moveBody(s.rocks[i])]
HitsSome(b, others) == \E i \in DOMAIN others : Overlaps(b, others[i])
\* the bullets and rocks of s that Tick(e) removes by collision
DeadBullets(s, e) == SelectSeq(MovedBullets(s, e), LAMBDA b : HitsSome(b, MovedRocks(s)))
DeadRocks(s, e) == SelectSeq(MovedRocks(s), LAMBDA r : HitsSome(r, MovedBullets(s, e)))
LiveBullets(s, e) == SelectSeq(MovedBullets(s, e), LAMBDA b : ~HitsSome(b, MovedRocks(s)))
LiveRocks(s, e) == SelectSeq(MovedRocks(s), LAMBDA r : ~HitsSome(r, MovedBullets(s, e)))
Splits(r) == 4 * r.radius >= StartRockRadius * PX
DeadBigRocks(s, e) == SelectSeq(DeadRocks(s, e), Splits)

(***************************************************************************)
(* C1.  Idempotent termination: reduceState(s, Tick(elapsed)) = s for      *)
(* every state s with gameOver = true.  Stated of the bare fold.           *)
(***************************************************************************)
C1_IdempotentTermination ==
  [][(state.gameOver /\ TickStep) => state' = state]_vars

(***************************************************************************)
(* C2.  Session halts on termination: a delivered state with gameOver =    *)
(* true leaves the subscription cancelled; from then on no event changes   *)
(* the state or is delivered, whatever keys go down or up; at most one     *)
(* gameOver state is ever delivered.                                       *)
(***************************************************************************)
C2_SessionHalts ==
  /\ [](state.gameOver <=> ~subscribed)
  /\ [](gameOverTexts <= 1)
  /\ [][~subscribed => UNCHANGED <<state, lastEvent, subscribed, gameOverTexts>>]_vars

\* the game is over and ArrowUp went down afterwards: it is held, and the
\* ship was not given the thrust a delivered Thrust(true) sets
C2_Witness ==
  /\ ~subscribed
  /\ state.gameOver
  /\ gameOverTexts = 1
  /\ "ArrowUp" \in held
  /\ state.ship.acc = Zero

(***************************************************************************)
(* C3.  Ship-rock collision ends the game: after a Tick on a state that is *)
(* not over, gameOver holds iff some rock, at the positions reached by     *)
(* this tick's movement, is closer to the ship than the sum of the radii;  *)
(* the ship is just the moved ship, and a rock that only the ship overlaps *)
(* stays among the rocks.                                                  *)
(***************************************************************************)
C3_ShipRockCollision ==
  [][(TickStep /\ ~state.gameOver) =>
       /\ state'.gameOver <=> HitsSome(moveBody(state.ship), MovedRocks(state))
       /\ state'.ship = moveBody(state.ship)
       /\ \A r \in Range(LiveRocks(state, lastEvent'.arg)) : r \in Range(state'.rocks)
    ]_vars

\* a Tick has just ended the game, the overlapping rock still in place
C3_Witness ==
  /\ lastEvent.type = "Tick"
  /\ state.gameOver
  /\ \E i \in DOMAIN state.rocks : Overlaps(state.ship, state.rocks[i])

(***************************************************************************)
(* C4.  Exact removal: after a Tick, bullets is exactly the moved          *)
(* non-expired bullets that overlap no rock, and rocks is exactly the      *)
(* moved rocks that no non-expired bullet overlaps, followed by rocks with *)
(* freshly minted ids; all pairs are tested on the one post-move snapshot. *)
(***************************************************************************)
C4_ExactRemoval ==
  [][TickStep =>
       LET e == lastEvent'.arg
           n == Len(LiveRocks(state, e))
       IN /\ state'.bullets = LiveBullets(state, e)
          /\ Len(state'.rocks) >= n
          /\ SubSeq(state'.rocks, 1, n) = LiveRocks(state, e)
          /\ \A j \in (n + 1)..Len(state'.rocks) :
               /\ state'.rocks[j].id[2] >= state.objCount
               /\ state'.rocks[j].id \notin IdsOf(state.rocks)
    ]_vars

\* a Tick has just removed one bullet that overlapped two different rocks,
\* while another rock went on untouched
C4_Witness ==
  /\ lastEvent.type = "Tick"
  /\ \E i, j, k \in DOMAIN state.exit :
       /\ state.exit[i].viewType = "bullet"
       /\ state.exit[j].viewType = "rock"
       /\ state.exit[k].viewType = "rock"
       /\ state.exit[j].id # state.exit[k].id
       /\ Overlaps(state.exit[i], state.exit[j])
       /\ Overlaps(state.exit[i], state.exit[k])
       /\ state.exit[i].id \notin IdsOf(state.bullets)
       /\ state.exit[j].id \notin IdsOf(state.rocks)
       /\ state.exit[k].id \notin IdsOf(state.rocks)
  /\ \E r \in Range(state.rocks) : r.createTime < state.time

(***************************************************************************)
(* C5.  Fragmentation count: the number of rocks a Tick adds is twice the  *)
(* number of distinct rocks it removes whose radius is at least            *)
(* StartRockRadius/4, however many bullets overlapped each.                *)
(***************************************************************************)
C5_FragmentationCount ==
  [][TickStep =>
       LET e == lastEvent'.arg
       IN Len(state'.rocks) - Len(LiveRocks(state, e)) = 2 * Len(DeadBigRocks(state, e))
    ]_vars

(***************************************************************************)
(* C6.  Child rock shape: every rock a Tick spawns is a rock of half the   *)
(* radius of a rock removed in that Tick, at that parent's post-move       *)
(* position, created at the Tick's elapsed, with a velocity orthogonal to  *)
(* the parent's and as long; children are minted in pairs of opposite      *)
(* velocities.                                                             *)
(***************************************************************************)
Dot(a, b) == a.x * b.x + a.y * b.y
IsChildOf(c, p, e) ==
  /\ c.viewType = "rock"
  /\ 2 * c.radius = p.radius
  /\ c.pos = p.pos
  /\ c.createTime = e
  /\ Dot(c.vel, p.vel) = 0
  /\ Dot(c.vel, c.vel) = Dot(p.vel, p.vel)

C6_ChildShape ==
  [][TickStep =>
       LET e == lastEvent'.arg
           fresh == SelectSeq(state'.rocks, LAMBDA r : r.id[2] >= state.objCount)
       IN /\ Len(fresh) % 2 = 0
          /\ \A k \in 1..(Len(fresh) \div 2) :
               \E p \in Range(DeadBigRocks(state, e)) :
                 /\ IsChildOf(fresh[2 * k - 1], p, e)
                 /\ IsChildOf(fresh[2 * k], p, e)
                 /\ fresh[2 * k].vel = Vec(-fresh[2 * k - 1].vel.x, -fresh[2 * k - 1].vel.y)
    ]_vars

\* a Tick has just spawned a moving child
C6_Witness ==
  /\ lastEvent.type = "Tick"
  /\ \E c \in Range(state.rocks) :
       /\ c.createTime = state.time
       /\ c.id[2] >= StartRocksCount
       /\ c.vel # Zero
       /\ 2 * c.radius < StartRockRadius * PX

(***************************************************************************)
(* C7.  Id uniqueness: no two of the ship, the bullets and the rocks share *)
(* an id, and the number in every bullet's or rock's id is below objCount. *)
(***************************************************************************)
C7_UniqueIds ==
  LET bodies == <<state.ship>> \o state.bullets \o state.rocks
  IN /\ NoDuplicateIds(bodies)
     /\ \A b \in Range(state.bullets \o state.rocks) : b.id[2] < state.objCount

\* a bullet fired in this run flies among children spawned in this run
C7_Witness ==
  /\ \E b \in Range(state.bullets) : b.createTime >= 600 /\ b.id[2] >= 5
  /\ \E c, d \in Range(state.rocks) :
       /\ c.id # d.id
       /\ c.createTime > 600 /\ d.createTime > 600
       /\ c.pos = d.pos

(***************************************************************************)
(* C8.  Id counter accounting: objCount never decreases; Shoot adds 1; a   *)
(* Tick adds 2 for each rock destroyed in it whose radius is at least      *)
(* StartRockRadius/4 and nothing else; Rotate and Thrust leave it alone.   *)
(***************************************************************************)
C8_CounterAccounting ==
  [][/\ state'.objCount >= state.objCount
     /\ ShootStep => state'.objCount = state.objCount + 1
     /\ (RotateStep \/ ThrustStep) => state'.objCount = state.objCount
     /\ TickStep =>
          state'.objCount = state.objCount + 2 * Len(DeadBigRocks(state, lastEvent'.arg))
    ]_vars

(***************************************************************************)
(* C9.  The departed set is deduplicated by identity: exit never holds two *)
(* entries with the same id.                                               *)
(***************************************************************************)
C9_ExitDeduplicated == NoDuplicateIds(state.exit)

(***************************************************************************)
(* C10.  The departed set is per step: after a Tick the ids in exit are    *)
(* exactly those of the bullets that expired in this Tick and of the       *)
(* bullets and rocks this Tick removed by collision.                       *)
(***************************************************************************)
C10_ExitPerStep ==
  [][TickStep =>
       LET e == lastEvent'.arg
       IN IdsOf(state'.exit) =
            IdsOf(ExpiredAt(state, e)) \cup IdsOf(DeadBullets(state, e))
              \cup IdsOf(DeadRocks(state, e))
    ]_vars

\* the second Tick of a run has just expired a bullet, and nothing of what
\* the first Tick removed is in exit
C10_Witness ==
  /\ lastEvent.type = "Tick"
  /\ ticks >= 2
  /\ state.exit # <<>>
  /\ \A x \in Range(state.exit) : state.time - x.createTime = TickBulletLifetime + 1
  /\ state.objCount > Len(state.bullets) + Len(state.rocks) + Len(state.exit)

(***************************************************************************)
(* C11.  Wraparound: every coordinate of the position of the ship, of      *)
(* every bullet and of every rock is at least 0 and strictly below         *)
(* CanvasSize.                                                             *)
(***************************************************************************)
InCanvas(p) ==
  /\ 0 <= p.x /\ p.x < CanvasSize * PX
  /\ 0 <= p.y /\ p.y < CanvasSize * PX

C11_Wraparound ==
  \A o \in {state.ship} \cup Range(state.bullets) \cup Range(state.rocks) : InCanvas(o.pos)

(***************************************************************************)
(* C12.  Projectile expiry: a Tick keeps every bullet whose age elapsed -  *)
(* createTime does not exceed the lifetime threshold and whose next        *)
(* position overlaps no rock; the first Tick at which the age exceeds the  *)
(* threshold leaves the bullet out of bullets and exactly once in exit.    *)
(***************************************************************************)
TimesIn(a, id) == Cardinality({i \in DOMAIN a : a[i].id = id})

C12_ProjectileExpiry ==
  [][TickStep =>
       LET e == lastEvent'.arg
       IN \A b \in Range(state.bullets) :
            /\ (e - b.createTime <= TickBulletLifetime
                  /\ ~HitsSome(moveBody(b), MovedRocks(state)))
                 => b.id \in IdsOf(state'.bullets)
            /\ e - b.createTime > TickBulletLifetime
                 => /\ b.id \notin IdsOf(state'.bullets)
                    /\ TimesIn(state'.exit, b.id) = 1
    ]_vars

\* a Tick has just expired a bullet aged one more than the lifetime whose
\* next position was clear of every rock, and kept the bullet aged exactly
\* the lifetime
C12_Witness ==
  /\ lastEvent.type = "Tick"
  /\ \E b \in Range(state.bullets) : state.time - b.createTime = TickBulletLifetime
  /\ \E x \in Range(state.exit) :
       /\ x.viewType = "bullet"
       /\ state.time - x.createTime = TickBulletLifetime + 1
       /\ x.id \notin IdsOf(state.bullets)
       /\ ~HitsSome(moveBody(x), state.rocks)

(***************************************************************************)
(* C13.  Time is monotone: no step of the stream decreases state.time; a   *)
(* Tick sets it to the Tick's elapsed; Rotate, Thrust and Shoot leave it   *)
(* as it is.                                                               *)
(***************************************************************************)
C13_TimeMonotone ==
  [][/\ state'.time >= state.time
     /\ TickStep => state'.time = lastEvent'.arg
     /\ (RotateStep \/ ThrustStep \/ ShootStep) => state'.time = state.time
    ]_vars

\* a command has just been delivered between the second tick of a run and
\* the next, and time is still the elapsed of that second tick
C13_Witness ==
  /\ lastEvent.type \in {"Rotate", "Thrust", "Shoot"}
  /\ ticks >= 2
  /\ state.time > 0
  /\ state.time = clock - 1

(***************************************************************************)
(* C14.  Integrator equations.  Advanced(o, n, w) says that n is o after   *)
(* one step of movement in which the angle advanced by w: rotation gains   *)
(* the torque, the position gains the velocity of before the step and is   *)
(* wrapped, the velocity gains the acceleration, and id, viewType, radius, *)
(* createTime, acc and torque are as they were.                            *)
(***************************************************************************)
Advanced(o, n, w) ==
  /\ n.rotation = o.rotation + o.torque
  /\ n.angle = o.angle + w
  /\ n.pos = torusWrap(Vec(o.pos.x + o.vel.x, o.pos.y + o.vel.y))
  /\ n.vel = Vec(o.vel.x + o.acc.x, o.vel.y + o.acc.y)
  /\ n.id = o.id /\ n.viewType = o.viewType /\ n.radius = o.radius
  /\ n.createTime = o.createTime /\ n.acc = o.acc /\ n.torque = o.torque

\* the bodies before and after a step, paired by id
Pairs(s, t) ==
  {<<s.ship, t.ship>>}
    \cup {<<o, n>> \in Range(s.bullets) \X Range(t.bullets) : o.id = n.id}
    \cup {<<o, n>> \in Range(s.rocks) \X Range(t.rocks) : o.id = n.id}

\* C14 as claimed: a Tick advances the angle of every body it keeps by the
\* rotation it has just updated
C14_AngleByUpdatedRotation ==
  [][TickStep => \A p \in Pairs(state, state') : Advanced(p[1], p[2], p[2].rotation)]_vars

\* C14 amended: a Tick advances the angle of every body it keeps by the
\* rotation of before the step
C14_IntegratorEquations ==
  [][TickStep => \A p \in Pairs(state, state') : Advanced(p[1], p[2], p[1].rotation)]_vars

\* a Tick has just moved a ship that turns and drifts: its angle trails its
\* rotation
C14_Witness ==
  /\ lastEvent.type = "Tick"
  /\ state.ship.torque # 0
  /\ state.ship.angle # 0
  /\ state.ship.rotation # state.ship.angle
  /\ state.ship.vel # Zero
  /\ state.ship.pos # Vec(Centre, Centre)

C16_ConfiguredLifetime ==
  [][TickStep =>
       LET e == lastEvent'.arg
       IN \A b \in Range(state.bullets) :
            /\ (e - b.createTime <= BulletExpirationTime
                  /\ ~HitsSome(moveBody(b), MovedRocks(state)))
                 => b.id \in IdsOf(state'.bullets)
            /\ e - b.createTime > BulletExpirationTime
                 => b.id \notin IdsOf(state'.bullets)
    ]_vars

(***************************************************************************)
(* C17.  Command frame: a Rotate leaves the state as it was but for        *)
(* ship.torque, which becomes the command's direction; a Thrust leaves the *)
(* state as it was but for ship.acc, which becomes the zero vector when    *)
(* off and the vector of length ThrustAcc along the ship's angle when on   *)
(* (straight up, (0, -ThrustAcc), at angle 0).                             *)
(***************************************************************************)
C17_CommandFrame ==
  [][/\ RotateStep => state' = [state EXCEPT !.ship.torque = lastEvent'.arg]
     /\ ThrustStep =>
          /\ state' = [state EXCEPT !.ship.acc = state'.ship.acc]
          /\ lastEvent'.arg = 0 => state'.ship.acc = Zero
          /\ lastEvent'.arg = 1 =>
               /\ state'.ship.acc = unitVecInDirection(state.ship.angle, ThrustAcc)
               /\ state.ship.angle = 0 => state'.ship.acc = Vec(0, -ThrustAcc)
    ]_vars

\* the thrust has just come on in a ship that was already turning
C17_Witness ==
  /\ lastEvent.type = "Thrust"
  /\ lastEvent.arg = 1
  /\ state.ship.acc # Zero
  /\ state.ship.torque # 0
  /\ state.ship.rotation # 0
  /\ state.ship.vel = Zero

(***************************************************************************)
(* C18.  Fire: a Shoot leaves the state as it was but for bullets, which   *)
(* gains as its last element one bullet with id 'bullet' + objCount,       *)
(* createTime = time, radius BulletRadius, position the ship's plus the    *)
(* ship's radius along the ship's angle, velocity the ship's plus          *)
(* BulletVelocity along the ship's angle, and nothing else set; and for    *)
(* objCount, which gains 1.                                                *)
(***************************************************************************)
C18_Fire ==
  [][ShootStep =>
       LET ship == state.ship
           off == unitVecInDirection(ship.angle, ship.radius)
           muzzle == unitVecInDirection(ship.angle, BulletVelocity * PX)
           fired == [id |-> <<"bullet", state.objCount>>, viewType |-> "bullet",
                     createTime |-> state.time, radius |-> BulletRadius * PX,
                     pos |-> Vec(ship.pos.x + off.x, ship.pos.y + off.y),
                     vel |-> Vec(ship.vel.x + muzzle.x, ship.vel.y + muzzle.y),
                     acc |-> Zero, angle |-> 0, rotation |-> 0, torque |-> 0]
       IN /\ state' = [state EXCEPT !.bullets = Append(state.bullets, fired),
                                    !.objCount = state.objCount + 1]
          /\ ship.angle = 0 =>
               /\ fired.pos = Vec(ship.pos.x, ship.pos.y - ship.radius)
               /\ fired.vel = Vec(ship.vel.x, ship.vel.y - BulletVelocity * PX)
    ]_vars

\* a drifting ship has just fired: the bullet, last in bullets, carries
\* the ship's velocity on top of the muzzle velocity
C18_Witness ==
  /\ lastEvent.type = "Shoot"
  /\ state.ship.vel # Zero
  /\ state.ship.pos # Vec(Centre, Centre)
  /\ Len(state.bullets) >= 1
  /\ LET b == state.bullets[Len(state.bullets)]
     IN /\ b.createTime = state.time
        /\ b.id[2] = state.objCount - 1
        /\ b.vel = add(state.ship.vel, Vec(0, -BulletVelocity * PX))

(***************************************************************************)
(* C19.  Firing order is preserved: along bullets the numbers in the ids   *)
(* strictly increase and createTime never decreases; after a Shoot the     *)
(* bullets of before come first, in their order, and the new one last; and *)
(* no step swaps two bullets that it keeps.                                *)
(***************************************************************************)
IndexOf(a, id) == CHOOSE k \in DOMAIN a : a[k].id = id

C19_FiringOrder ==
  /\ [](\A i, j \in DOMAIN state.bullets :
          i < j => /\ state.bullets[i].id[2] < state.bullets[j].id[2]
                   /\ state.bullets[i].createTime <= state.bullets[j].createTime)
  /\ [][ShootStep =>
          /\ Len(state'.bullets) = Len(state.bullets) + 1
          /\ SubSeq(state'.bullets, 1, Len(state.bullets)) = state.bullets
          /\ state'.bullets[Len(state'.bullets)].id[2] = state.objCount
       ]_vars
  /\ [][\A i, j \in DOMAIN state'.bullets :
          (i < j /\ state'.bullets[i].id \in IdsOf(state.bullets)
                 /\ state'.bullets[j].id \in IdsOf(state.bullets))
            => IndexOf(state.bullets, state'.bullets[i].id)
                 < IndexOf(state.bullets, state'.bullets[j].id)
       ]_vars

\* a second shot has just been fired a tick after the first, which still
\* flies: the two are in bullets in that order
C19_Witness ==
  /\ lastEvent.type = "Shoot"
  /\ Len(state.bullets) >= 2
  /\ LET n == Len(state.bullets)
     IN /\ state.bullets[n].createTime = state.time
        /\ state.bullets[n - 1].createTime < state.time
        /\ state.bullets[n - 1].id[2] = state.bullets[n].id[2] - 1
        /\ state.bullets[n - 1].vel # Zero
        /\ state.bullets[n - 1].pos # state.bullets[n].pos

(***************************************************************************)
(* C20.  Serialised fold: while the subscription lasts, every event a      *)
(* source emits is folded in at once and once.  The states delivered are   *)
(* as many as the events emitted; before the first event the state is the  *)
(* seed; each step that emits an event e takes the state to                *)
(* reduceState(state, e), and no other step changes the state; the clock's *)
(* ticks arrive with elapsed = 0, 1, 2, ... in that order; a key going     *)
(* down arrives as its start command, an arrow key going up as its stop    *)
(* command; an auto-repeat and the release of Space are no events.         *)
(***************************************************************************)
EventOf(l) == [type |-> l.type, arg |-> l.arg]

C20_SerialisedFold ==
  /\ [](delivered = emitted)
  /\ [](emitted = 0 =>
          state \in {initialState(dirs) : dirs \in initialRocksDirections} \cup Scenes)
  /\ [][emitted' # emitted =>
          /\ emitted' = emitted + 1
          /\ Fed
          /\ state' = reduceState(state, EventOf(lastEvent'))
       ]_vars
  /\ [][(state' # state \/ Fed) => emitted' = emitted + 1]_vars
  /\ [][ticks' # ticks => (TickStep /\ lastEvent'.arg = clock /\ clock' = clock + 1)]_vars
  /\ [][subscribed =>
          \A k \in Keys :
            /\ (k \notin held /\ k \in held') =>
                 (Fed /\ EventOf(lastEvent') = startCommand(k))
            /\ (k \in held /\ k \notin held' /\ k # "Space") =>
                 (Fed /\ EventOf(lastEvent') = stopCommand(k))
            /\ (k \in held /\ k \notin held' /\ k = "Space") => ~Fed
            /\ (keyEvents' # keyEvents /\ held' = held) => ~Fed
       ]_vars

\* the stream is live after four events, the last a Tick, and the keyboard
\* has produced an input that no source turns into an event
C20_Witness ==
  /\ subscribed
  /\ lastEvent.type = "Tick"
  /\ delivered >= 4
  /\ ticks >= 2
  /\ keyEvents > delivered - ticks
  /\ state.time = clock - 1

(***************************************************************************)
(* C21.  Edge-triggered commands: while the subscription lasts, a key      *)
(* going down delivers exactly one event, Rotate(-0.1) for ArrowLeft,      *)
(* Rotate(0.1) for ArrowRight, Thrust(true) for ArrowUp and Shoot for      *)
(* Space; every auto-repeat of a held key delivers nothing and changes     *)
(* nothing but the keyboard; an arrow key going up delivers exactly one    *)
(* event, Rotate(0) or Thrust(false); Space going up delivers nothing.  So *)
(* a press, however long it is held, is one start and one stop command.    *)
(***************************************************************************)
KeyWentDown(k) == k \notin held /\ k \in held'
KeyWentUp(k) == k \in held /\ k \notin held'
KeyRepeated == keyEvents' # keyEvents /\ held' = held
DeliveredOne(type, arg) ==
  /\ delivered' = delivered + 1
  /\ Fed
  /\ lastEvent'.type = type
  /\ lastEvent'.arg = arg
DeliveredNone == delivered' = delivered /\ ~Fed /\ state' = state

C21_EdgeTriggered ==
  [][subscribed =>
       /\ KeyWentDown("ArrowLeft") => DeliveredOne("Rotate", -RotateDir)
       /\ KeyWentDown("ArrowRight") => DeliveredOne("Rotate", RotateDir)
       /\ KeyWentDown("ArrowUp") => DeliveredOne("Thrust", 1)
       /\ KeyWentDown("Space") => DeliveredOne("Shoot", 0)
       /\ KeyRepeated => DeliveredNone
       /\ KeyWentUp("ArrowLeft") => DeliveredOne("Rotate", 0)
       /\ KeyWentUp("ArrowRight") => DeliveredOne("Rotate", 0)
       /\ KeyWentUp("ArrowUp") => DeliveredOne("Thrust", 0)
       /\ KeyWentUp("Space") => DeliveredNone
    ]_vars

\* ArrowUp went down, auto-repeated and has just gone up: three keyboard
\* events, two commands, the thrust off again
C21_Witness ==
  /\ subscribed
  /\ held = {}
  /\ keyEvents = 3
  /\ delivered - ticks = 2
  /\ lastEvent.type = "Thrust"
  /\ lastEvent.arg = 0
  /\ state.ship.acc = Zero

(***************************************************************************)
(* C22.  Order independence of fragmentation.  Every permutation is a      *)
(* chain of swaps of two elements, so the states compared with a state s   *)
(* are those that differ from s by one swap in bullets or one in rocks.    *)
(***************************************************************************)
Swap(a, i, j) == [a EXCEPT ![i] = a[j], ![j] = a[i]]

Swapped(s) ==
  {[s EXCEPT !.bullets = Swap(s.bullets, i, j)] :
     <<i, j>> \in {p \in (DOMAIN s.bullets) \X (DOMAIN s.bullets) : p[1] < p[2]}}
    \cup
  {[s EXCEPT !.rocks = Swap(s.rocks, i, j)] :
     <<i, j>> \in {p \in (DOMAIN s.rocks) \X (DOMAIN s.rocks) : p[1] < p[2]}}

\* a rock without its id
Shape(r) == [radius |-> r.radius, pos |-> r.pos, vel |-> r.vel, createTime |-> r.createTime]
ShapesIn(a, g) == Cardinality({i \in DOMAIN a : Shape(a[i]) = g})
\* the rocks of t minted at or above the counter n, and the others
Minted(t, n) == SelectSeq(t.rocks, LAMBDA r : r.id[2] >= n)
Survivors(t, n) == SelectSeq(t.rocks, LAMBDA r : r.id[2] < n)

\* t and u agree in everything but the rocks, up to the order of collections
SameButRocks(t, u) ==
  /\ Range(t.bullets) = Range(u.bullets)
  /\ Range(t.exit) = Range(u.exit)
  /\ t.objCount = u.objCount
  /\ t.gameOver = u.gameOver
  /\ t.ship = u.ship
  /\ t.time = u.time

\* C22 as claimed: a Tick on a state with two bullets or two rocks swapped
\* gives the same bullets, rocks (children with their ids), exit, objCount
\* and gameOver, up to the order of the collections
C22_OrderIndependent ==
  [][TickStep =>
       \A u \in {tick(p, lastEvent'.arg) : p \in Swapped(state)} :
         SameButRocks(state', u) /\ Range(state'.rocks) = Range(u.rocks)
    ]_vars

\* C22 amended: the same, but of the children only the ids in use and the
\* bodies that carry them agree, not which child carries which id
C22_OrderIndependentButIds ==
  [][TickStep =>
       \A u \in {tick(p, lastEvent'.arg) : p \in Swapped(state)} :
         LET n == state.objCount
         IN /\ SameButRocks(state', u)
            /\ Range(Survivors(state', n)) = Range(Survivors(u, n))
            /\ IdsOf(Minted(state', n)) = IdsOf(Minted(u, n))
            /\ Len(Minted(state', n)) = Len(Minted(u, n))
            /\ \A c \in Range(Minted(state', n)) :
                 ShapesIn(Minted(state', n), Shape(c)) = ShapesIn(Minted(u, n), Shape(c))
    ]_vars

\* a Tick has just destroyed two different rocks and spawned the children
\* of both, while other rocks went on
C22_Witness ==
  /\ lastEvent.type = "Tick"
  /\ \E x, y \in Range(state.exit) :
       /\ x.viewType = "rock" /\ y.viewType = "rock"
       /\ x.id # y.id
       /\ \E c, d \in Range(state.rocks) :
            /\ c.createTime = state.time /\ d.createTime = state.time
            /\ c.id[2] >= StartRocksCount /\ d.id[2] >= StartRocksCount
            /\ c.pos = x.pos /\ d.pos = y.pos
            /\ c.pos # d.pos
  /\ \E r \in Range(state.rocks) : r.createTime < state.time

(***************************************************************************)
(* C23.  No body vanishes silently: after a Tick every bullet and every    *)
(* rock of before is, by its id, either still in its collection or in      *)
(* exit, and no id in exit is the id of a bullet or rock that is still     *)
(* there.                                                                  *)
(***************************************************************************)
C23_NoSilentRemoval ==
  [][TickStep =>
       /\ \A b \in Range(state.bullets) :
            b.id \in IdsOf(state'.bullets) \cup IdsOf(state'.exit)
       /\ \A r \in Range(state.rocks) :
            r.id \in IdsOf(state'.rocks) \cup IdsOf(state'.exit)
       /\ IdsOf(state'.exit) \cap (IdsOf(state'.bullets) \cup IdsOf(state'.rocks)) = {}
    ]_vars

\* a Tick has just expired one bullet, removed another with the rock it
\* hit, and kept a third
C23_Witness ==
  /\ lastEvent.type = "Tick"
  /\ state.bullets # <<>>
  /\ \E x, y, z \in Range(state.exit) :
       /\ x.viewType = "bullet" /\ state.time - x.createTime > TickBulletLifetime
       /\ y.viewType = "bullet" /\ state.time - y.createTime <= TickBulletLifetime
       /\ z.viewType = "rock" /\ Overlaps(y, z)

(***************************************************************************)
(* C24.  Every projectile leaves: no bullet in bullets is older than the   *)
(* lifetime tick uses, its age being time - createTime; and a Tick leaves  *)
(* no bullet in bullets whose createTime plus that lifetime is below the   *)
(* Tick's elapsed, whether it met a rock or not.  With the clock's elapsed *)
(* growing by one at every Tick this is the deadline by which each bullet  *)
(* has left; and while the game goes on and the clock runs, the Tick that  *)
(* takes the overdue bullets does come.                                    *)
(***************************************************************************)
\* some bullet is so old that the next Tick's elapsed exceeds its deadline
Overdue == \E b \in Range(state.bullets) : b.createTime + TickBulletLifetime < clock

C24_EveryBulletLeaves ==
  /\ [](\A b \in Range(state.bullets) : state.time - b.createTime <= TickBulletLifetime)
  /\ [][TickStep =>
          /\ lastEvent'.arg >= state.time
          /\ \A b \in Range(state'.bullets) :
               b.createTime + TickBulletLifetime >= lastEvent'.arg
       ]_vars
  /\ \A k \in 0..(MaxTicks - 1) :
       (subscribed /\ ticks = k /\ Overdue)
         ~> (ticks = k + 1
               /\ \A b \in Range(state.bullets) :
                    b.createTime + TickBulletLifetime >= state.time)

\* the second Tick of a run has just taken the last bullet, at its
\* deadline: bullets is empty, and bullets were fired before
C24_Witness ==
  /\ lastEvent.type = "Tick"
  /\ ticks >= 2
  /\ state.bullets = <<>>
  /\ \E x \in Range(state.exit) :
       /\ x.viewType = "bullet"
       /\ x.createTime + TickBulletLifetime + 1 = state.time
  /\ \A x \in Range(state.exit) : x.viewType = "bullet"

(***************************************************************************)
(* C25.  Bounded fragmentation depth: the radius of every rock is          *)
(* StartRockRadius or a half, a quarter or an eighth of it; every rock a   *)
(* Tick mints has half the radius of a rock that Tick destroyed; and a     *)
(* destroyed rock of an eighth of StartRockRadius leaves no child.         *)
(***************************************************************************)
RockRadii ==
  {StartRockRadius * PX, (StartRockRadius * PX) \div 2,
   (StartRockRadius * PX) \div 4, (StartRockRadius * PX) \div 8}

C25_BoundedFragmentation ==
  /\ [](\A r \in Range(state.rocks) :
          /\ r.radius \in RockRadii
          /\ 8 * r.radius >= StartRockRadius * PX)
  /\ [][TickStep =>
          LET e == lastEvent'.arg
              dead == Range(DeadRocks(state, e))
          IN \A c \in Range(Minted(state', state.objCount)) :
               /\ \E p \in dead : p.radius = 2 * c.radius /\ p.pos = c.pos
               /\ \A p \in dead : p.pos = c.pos => 8 * p.radius > StartRockRadius * PX
       ]_vars

\* a Tick has just destroyed a rock of an eighth of StartRockRadius, which
\* left nothing, and one of a quarter, which left its children
C25_Witness ==
  /\ lastEvent.type = "Tick"
  /\ \E x, y \in Range(state.exit) :
       /\ x.viewType = "rock" /\ 8 * x.radius = StartRockRadius * PX
       /\ \A r \in Range(state.rocks) : r.pos # x.pos
       /\ y.viewType = "rock" /\ 4 * y.radius = StartRockRadius * PX
       /\ \E r \in Range(state.rocks) :
            r.pos = y.pos /\ r.createTime = state.time /\ 2 * r.radius = y.radius

(***************************************************************************)
(* C26.  Only the ship is steerable: every bullet and every rock has the   *)
(* zero acceleration and torque, rotation and angle 0; no step changes the *)
(* velocity of a bullet or rock it keeps; and a Rotate or Thrust leaves    *)
(* bullets and rocks as they were.                                         *)
(***************************************************************************)
C26_OnlyShipSteerable ==
  /\ [](\A o \in Range(state.bullets) \cup Range(state.rocks) :
          o.acc = Zero /\ o.torque = 0 /\ o.rotation = 0 /\ o.angle = 0)
  /\ [][\A p \in Pairs(state, state') \ {<<state.ship, state'.ship>>} :
          p[2].vel = p[1].vel
       ]_vars
  /\ [][(RotateStep \/ ThrustStep) =>
          (state'.bullets = state.bullets /\ state'.rocks = state.rocks)
       ]_vars

\* a Tick has just moved a ship that turns under thrust, and a bullet fired
\* in this run that flies on as it was fired
C26_Witness ==
  /\ lastEvent.type = "Tick"
  /\ state.ship.rotation # 0
  /\ state.ship.acc # Zero
  /\ state.ship.vel # Zero
  /\ \E b \in Range(state.bullets) :
       /\ b.createTime < state.time
       /\ b.id[2] >= state.objCount - 1
       /\ b.pos # add(state.ship.pos, Vec(0, -state.ship.radius))

====
